---- MODULE Spec2Model ----
(***************************************************************************)
(* Iterative-deepening negamax with alpha-beta pruning, a transposition    *)
(* table, quiescence, null-window search and aspiration windows            *)
(* (strategies/iterative.rs), and its Young-Brothers-Wait parallel         *)
(* variant (strategies/ybw.rs).                                            *)
(*                                                                         *)
(* The game and the evaluator are external collaborators: the model runs   *)
(* the searchers on a bounded family of finite game trees, selected by     *)
(* `game` (a seed).  A state of the game is the sequence of moves played   *)
(* from the initial position; a move is a child index.                     *)
(***************************************************************************)
EXTENDS Integers, Sequences, FiniteSets, TLC

VARIABLES
    game,            \* the game tree and evaluator the searchers run on
    opts,            \* IterativeOptions of the serial searcher
    max_depth,       \* IterativeSearch.max_depth
    max_time,        \* IterativeSearch.max_time
    table,           \* TranspositionTable.table
    mask,            \* TranspositionTable.mask
    generation,      \* TranspositionTable.generation
    prev_value,      \* IterativeSearch.prev_value
    pv,              \* IterativeSearch.pv
    timeout,         \* the AtomicBool installed by choose_move: kind and value
    pc,              \* position of the serial searcher inside choose_move
    root,            \* argument s of the running choose_move
    depth,           \* loop variable of choose_move
    best_move,       \* local best_move of choose_move
    returned,        \* what the last choose_move returned
    last_setter,     \* the most recent of set_max_depth / set_timeout, and its argument
    calls,           \* number of choose_move calls started on the searcher
    log,             \* root searches of the running call, in order
    runs,            \* completed choose_move calls, in order
    probe,           \* what the searches of the last step were observed to do
    twin,            \* a second IterativeSearch, null_window_search inverted
    overflow_checks, \* build profile: TRUE panics on integer overflow
    ybw,             \* the ParallelYbw searcher
    direct           \* calls made on the TranspositionTable itself: the stores (their number,
                     \* their hashes, the last one) and what the last lookup returned

vars == <<game, opts, max_depth, max_time, table, mask, generation, prev_value,
          pv, timeout, pc, root, depth, best_move,
          returned, last_setter, calls, log, runs, probe, twin,
          overflow_checks, ybw, direct>>

----------------------------------------------------------------------------
(* Bounds of the model. *)

MaxPly == 3          \* plies of the game trees
MaxBranch == 2       \* moves per position
NumSeeds == 6        \* game trees drawn
EvalMax == 2         \* static evaluations lie in -EvalMax..EvalMax
MaxDepthArg == 2     \* largest max_depth handed to set_max_depth
MaxCalls == 2        \* choose_move calls per searcher
MaxCut == 6          \* latest poll of an iteration at which the timer fires
MaxTimedIters == 3   \* passes of the loop the timer lets a timed call begin
MaxYbwCalls == 1     \* choose_move calls per parallel searcher
MaxYbwTimedIters == 2 \* passes the timer lets a timed parallel call begin
MaxRuns == 2         \* completed calls the history keeps

(* Machine integers. *)
U8 == 256
I32Max == 2147483647
I32Min == (-2147483647) - 1

(* interface: the sentinel evaluations. *)
BEST_EVAL == 1000000000
WORST_EVAL == -BEST_EVAL

Max(a, b) == IF a >= b THEN a ELSE b
Min(a, b) == IF a <= b THEN a ELSE b

(* Option<T>. *)
None == [some |-> FALSE, v |-> 0]
Some(x) == [some |-> TRUE, v |-> x]

----------------------------------------------------------------------------
(* The game collaborator: a finite tree.  Every quantity of a position is  *)
(* a fixed function of the position and of the seed.                       *)

RECURSIVE code(_)
code(s) == IF s = <<>> THEN 0
           ELSE code(SubSeq(s, 1, Len(s) - 1)) * (MaxBranch + 1) + s[Len(s)]

\* the trees of the family: picked ones first (in them a null-window probe
\* and the full search that follows it disagree), then the others in order
Trees == <<17, 60, 112>>
tree_of(k) == IF k <= Len(Trees) THEN Trees[k] ELSE k - Len(Trees)

Rnd(g, s, salt) ==
    LET y == ((code(s) + 3) * (salt * 17 + tree_of(g.seed) * 29 + 7)) % 1009
    IN  ((y * y) \div 7 + 3 * y) % 101

\* Zobrist::zobrist_hash: equal for equal states, distinct for distinct ones.
zobrist_hash(g, s) == code(s) + g.hash_base

\* Game::get_winner: Some(terminal evaluation for the side to move) or None.
get_winner(g, s) ==
    LET r == Rnd(g, s, 1)
        won == IF Len(s) = 0 THEN g.root_kind = "won"
               ELSE IF Len(s) >= MaxPly THEN r % 4 = 0
               ELSE r % 11 = 0
        w == Rnd(g, s, 2) % 5
    IN  IF ~won THEN None
        ELSE Some(CASE w = 0 -> WORST_EVAL
                    [] w = 1 -> WORST_EVAL + 1
                    [] w = 2 -> 0
                    [] w = 3 -> BEST_EVAL - 1
                    [] OTHER -> BEST_EVAL)

\* Game::generate_moves: the legal moves, in generation order.
generate_moves(g, s) ==
    LET r == Rnd(g, s, 3)
        few == 1 + (r % MaxBranch)
        n == IF Len(s) = 0 THEN (IF g.root_kind = "dead" THEN 0 ELSE MaxBranch)
             ELSE IF Len(s) >= MaxPly THEN 0
             ELSE IF r % 9 = 0 THEN 0
             ELSE IF r % 5 = 1 THEN few
             ELSE MaxBranch
    IN  IF r % 2 = 0 THEN [i \in 1..n |-> i] ELSE [i \in 1..n |-> n + 1 - i]

\* Game::generate_noisy_moves: the forcing moves, a subsequence of the moves.
generate_noisy_moves(g, s) ==
    LET ms == generate_moves(g, s)
    IN  SelectSeq(ms, LAMBDA m : Rnd(g, Append(s, m), 4) % 2 = 0)

\* Evaluator::evaluate: strictly inside (WORST_EVAL, BEST_EVAL).
evaluate(g, s) == (Rnd(g, s, 5) % (2 * EvalMax + 1)) - EvalMax

\* Move::apply / Move::undo
apply(m, s) == Append(s, m)

----------------------------------------------------------------------------
(* Machine arithmetic. *)

\* neg32 off by one
neg32_off(x) == <<1 - x, FALSE>>

\* i32 negation; the second component tells that the result wrapped.
neg32(x) == IF x = I32Min THEN <<I32Min, TRUE>> ELSE <<-x, FALSE>>
\* i32 x - 1
dec32(x) == IF x = I32Min THEN <<I32Max, TRUE>> ELSE <<x - 1, FALSE>>
\* i32::saturating_add / saturating_sub
saturating_add(a, b) ==
    IF b > 0 /\ a > I32Max - b THEN I32Max
    ELSE IF b < 0 /\ a < I32Min - b THEN I32Min
    ELSE a + b
saturating_sub(a, b) ==
    IF b < 0 /\ a > I32Max + b THEN I32Max
    ELSE IF b > 0 /\ a < I32Min + b THEN I32Min
    ELSE a - b

RECURSIVE BitAnd(_, _)
BitAnd(a, b) == IF a = 0 \/ b = 0 THEN 0
                ELSE (a % 2) * (b % 2) + 2 * BitAnd(a \div 2, b \div 2)

RECURSIVE next_power_of_two(_)
next_power_of_two(n) == IF n <= 1 THEN 1 ELSE 2 * next_power_of_two((n + 1) \div 2)

\* util::clamp_value: saturate into [WORST_EVAL, BEST_EVAL].
clamp_value(v) == Max(WORST_EVAL, Min(BEST_EVAL, v))
\* util::unclamp_value
unclamp_value(v) == v

----------------------------------------------------------------------------
(* The transposition table.  tt = [table, mask, generation, strategy].     *)

SizeOfEntry == 24

Entry(h, v, d, f, g, bm) ==
    [hash |-> h, value |-> v, depth |-> d, flag |-> f, generation |-> g, best_move |-> bm]

\* TranspositionTable::new
new_table(table_byte_size, strategy) ==
    LET size == next_power_of_two(table_byte_size \div SizeOfEntry)
    IN  [table |-> [i \in 0..(size - 1) |-> Entry(0, 0, 0, "Exact", 0, None)],
         mask |-> IF strategy = "TwoTier" THEN (size - 1) - ((size - 1) % 2) ELSE size - 1,
         generation |-> 0,
         strategy |-> strategy]

\* lookup without the comparison of the hashes
lookup_unchecked(tt, hash) == Some(tt.table[BitAnd(hash, tt.mask)])

\* TranspositionTable::lookup
lookup(tt, hash) ==
    LET at(index) ==
          IF hash = tt.table[index].hash THEN Some(tt.table[index])
          ELSE IF tt.strategy = "TwoTier" /\ hash = tt.table[index + 1].hash
          THEN Some(tt.table[index + 1])
          ELSE None
    IN  at(BitAnd(hash, tt.mask))

\* a destination that is the first slot of the hash, whatever it holds
store_dest_always(tt, hash, depth_) == Some(BitAnd(hash, tt.mask))

\* the slot TranspositionTable::store writes, or None
store_dest(tt, hash, depth_) ==
    LET at(index) ==
          LET entry == tt.table[index]
          IN  CASE tt.strategy = "Always" -> Some(index)
                [] tt.strategy = "DepthPreferred" ->
                      IF entry.generation # tt.generation \/ entry.depth <= depth_
                      THEN Some(index) ELSE None
                [] OTHER ->
                      IF entry.generation # tt.generation \/ entry.depth <= depth_
                      THEN Some(index) ELSE Some(index + 1)
    IN  at(BitAnd(hash, tt.mask))

\* store that records one ply more than was searched
store_deeper(tt, hash, value, depth_, flag, best_move_) ==
    LET put(dest) ==
          IF dest.some
          THEN [tt EXCEPT !.table[dest.v] =
                   Entry(hash, value, depth_ + 1, flag, tt.generation, Some(best_move_))]
          ELSE tt
    IN  put(store_dest(tt, hash, depth_))

\* TranspositionTable::store
store(tt, hash, value, depth_, flag, best_move_) ==
    LET put(dest) ==
          IF dest.some
          THEN [tt EXCEPT !.table[dest.v] =
                   Entry(hash, value, depth_, flag, tt.generation, Some(best_move_))]
          ELSE tt
    IN  put(store_dest(tt, hash, depth_))

\* a generation that stops at the largest 8-bit value
advance_generation_saturating(tt) == [tt EXCEPT !.generation = Min(tt.generation + 1, U8 - 1)]

\* TranspositionTable::advance_generation
advance_generation(tt) == [tt EXCEPT !.generation = (tt.generation + 1) % U8]

\* lookup indexes the table past its end (the index panics)
lookup_panics(tt, hash) ==
    LET at(index) ==
          /\ hash # tt.table[index].hash
          /\ tt.strategy = "TwoTier"
          /\ (index + 1) \notin DOMAIN tt.table
    IN  at(BitAnd(hash, tt.mask))

\* store indexes the table past its end (the index panics)
store_panics(tt, hash, depth_) ==
    LET out(dest) == dest.some /\ dest.v \notin DOMAIN tt.table
    IN  out(store_dest(tt, hash, depth_))

\* Table::check: probe and tighten the window.
check(tt, hash, depth_, alpha, beta) ==
    LET probed(found) ==
          LET entry == found.v
              usable == found.some /\ entry.depth >= depth_
              a == IF usable /\ entry.flag = "Lowerbound" THEN Max(alpha, entry.value)
                   ELSE alpha
              b == IF usable /\ entry.flag = "Upperbound" THEN Min(beta, entry.value)
                   ELSE beta
          IN  [ret |-> IF usable /\ (entry.flag = "Exact" \/ a >= b) THEN Some(entry.value)
                       ELSE None,
               good_move |-> IF found.some THEN entry.best_move ELSE None,
               alpha |-> a, beta |-> b]
    IN  probed(lookup(tt, hash))

\* Table::update: choose the flag and store.
update(tt, hash, alpha_orig, beta, depth_, best, best_move_) ==
    LET flag == IF best <= alpha_orig THEN "Upperbound"
                ELSE IF best >= beta THEN "Lowerbound"
                ELSE "Exact"
    IN  store(tt, hash, best, depth_, flag, best_move_)

----------------------------------------------------------------------------
(* The serial searcher, Negamaxer.                                         *)
(* cfg = [g, max_quiescence_depth, null_window_search] is fixed during a   *)
(* search; st is what a search reads and writes:                           *)
(*   tt      the transposition table                                       *)
(*   timer   the number of polls of the timeout flag that still read       *)
(*           false (-1: the flag is constantly false)                      *)
(*   nodes_explored                                                        *)
(*   ret_lo, ret_hi   the least and greatest value returned as Some(v)     *)
(*   wrapped          an i32 negation or decrement wrapped                 *)
(*   frames, noisy_frames   the calls of negamax and noisy_negamax, and of *)
(*                    noisy_negamax alone, that have not returned yet      *)
(*   deepest, noisy_deepest   the greatest values frames and noisy_frames  *)
(*                    have had                                             *)
(*   entered          the calls of negamax and noisy_negamax made          *)

Never == -1

search_state(tt, timer) ==
    [tt |-> tt, timer |-> timer, nodes_explored |-> 0,
     ret_lo |-> 0, ret_hi |-> 0, wrapped |-> FALSE,
     frames |-> 0, noisy_frames |-> 0, deepest |-> 0, noisy_deepest |-> 0, entered |-> 0]

\* what a search is observed to have done
observed(st) ==
    [ret_lo |-> st.ret_lo, ret_hi |-> st.ret_hi, wrapped |-> st.wrapped,
     deepest |-> st.deepest, noisy_deepest |-> st.noisy_deepest, entered |-> st.entered]

\* a call of negamax (n = 0) or noisy_negamax (n = 1) begins, returns
called(st, n) ==
    [st EXCEPT !.frames = @ + 1,
               !.noisy_frames = @ + n,
               !.deepest = Max(@, st.frames + 1),
               !.noisy_deepest = Max(@, st.noisy_frames + n),
               !.entered = @ + 1]
back(r, n) == [r EXCEPT !.st.frames = @ - 1, !.st.noisy_frames = @ - n]

\* self.timeout.load(Ordering::Relaxed)
timeout_load(st) == st.timer = 0
polled(st) == IF st.timer > 0 THEN [st EXCEPT !.timer = st.timer - 1] ELSE st

returns(st, v) ==
    [ret |-> Some(v),
     st |-> [st EXCEPT !.ret_lo = Min(st.ret_lo, v), !.ret_hi = Max(st.ret_hi, v)]]
timed_out(st) == [ret |-> None, st |-> st]
noting(st, w) == IF w THEN [st EXCEPT !.wrapped = TRUE] ELSE st

\* the negation of an Option<Evaluation> returned by a child (the `-f(..)?`)
negated(r) ==
    LET neg(n) == [ret |-> Some(n[1]), st |-> noting(r.st, n[2])]
    IN  IF r.ret.some THEN neg(neg32(r.ret.v)) ELSE r

RECURSIVE noisy_negamax(_, _, _, _, _, _)
RECURSIVE noisy_loop(_, _, _, _, _, _, _, _, _)

\* Negamaxer::noisy_negamax, the loop over the noisy moves
noisy_loop(cfg, st, s, depth_, alpha, beta, moves, i, best) ==
    IF i > Len(moves) THEN returns(st, best)
    ELSE
      LET nb == neg32(beta)
          na == neg32(alpha)
          valued(r) ==
            LET value == r.ret.v
            IN  IF ~r.ret.some THEN timed_out(r.st)
                ELSE IF Max(alpha, value) >= beta THEN returns(r.st, Max(best, value))
                ELSE noisy_loop(cfg, r.st, s, depth_, Max(alpha, value), beta, moves, i + 1,
                                Max(best, value))
      IN  valued(negated(noisy_negamax(cfg, noting(st, nb[2] \/ na[2]), apply(moves[i], s),
                                       depth_ - 1, nb[1], na[1])))

\* Negamaxer::noisy_negamax
noisy_negamax(cfg, st0, s, depth_, alpha, beta) ==
    LET node(st, winner, moves) ==
          IF winner.some THEN returns(st, winner.v)
          ELSE IF depth_ = 0 THEN returns(st, evaluate(cfg.g, s))
          ELSE IF moves = <<>> THEN returns(st, evaluate(cfg.g, s))
          ELSE noisy_loop(cfg, st, s, depth_, alpha, beta, moves, 1, WORST_EVAL)
    IN  back(IF timeout_load(st0) THEN timed_out(called(st0, 1))
             ELSE node(polled(called(st0, 1)), get_winner(cfg.g, s),
                       generate_noisy_moves(cfg.g, s)),
             1)

\* "Rearrange so predicted good move is first": moves.swap(0, i) for the first
\* i with moves[i] == good.
good_move_first(moves, good_move) ==
    LET swap(i) == [moves EXCEPT ![1] = moves[i], ![i] = moves[1]]
    IN  IF good_move.some /\ \E i \in 1..Len(moves) : moves[i] = good_move.v
        THEN swap(CHOOSE k \in 1..Len(moves) :
                     /\ moves[k] = good_move.v
                     /\ \A j \in 1..(k - 1) : moves[j] # good_move.v)
        ELSE moves

RECURSIVE negamax(_, _, _, _, _, _)
RECURSIVE negamax_loop(_, _, _, _, _, _, _, _, _, _, _)
RECURSIVE child_value(_, _, _, _, _, _, _)

\* child_value that trusts the probe: no full search after a probe inside the window
child_value_unverified(cfg, st, s, depth_, alpha, beta, null_window) ==
    LET na == neg32(alpha)
        nb == neg32(beta)
        na1 == dec32(neg32(alpha)[1])
    IN  IF null_window
        THEN negated(negamax(cfg, noting(st, na[2] \/ na1[2]), s, depth_ - 1, na1[1], na[1]))
        ELSE negated(negamax(cfg, noting(st, na[2] \/ nb[2]), s, depth_ - 1, nb[1], na[1]))

\* Negamaxer::negamax, the value of one child of the loop (apply .. undo)
child_value(cfg, st, s, depth_, alpha, beta, null_window) ==
    LET na == neg32(alpha)
        nb == neg32(beta)
        na1 == dec32(neg32(alpha)[1])
        research(r1, np) ==
            negated(negamax(cfg, noting(r1.st, nb[2] \/ np[2]), s, depth_ - 1, nb[1], np[1]))
        probed(r1) ==
            IF ~r1.ret.some THEN r1
            ELSE IF r1.ret.v > alpha /\ r1.ret.v < beta THEN research(r1, neg32(r1.ret.v))
            ELSE r1
    IN  IF null_window
        THEN probed(negated(negamax(cfg, noting(st, na[2] \/ na1[2]), s, depth_ - 1,
                                    na1[1], na[1])))
        ELSE negated(negamax(cfg, noting(st, na[2] \/ nb[2]), s, depth_ - 1, nb[1], na[1]))

\* Negamaxer::negamax, the loop over the moves; yields the frame's
\* (best, best_move) or the timeout
negamax_loop(cfg, st, s, depth_, alpha, beta, moves, i, best, best_move_, null_window) ==
    IF i > Len(moves) THEN [some |-> TRUE, st |-> st, best |-> best, best_move |-> best_move_]
    ELSE
      LET m == moves[i]
          valued(r) ==
            LET value == r.ret.v
                best2 == IF value > best THEN value ELSE best
                move2 == IF value > best THEN m ELSE best_move_
                alpha2 == IF value > alpha THEN value ELSE alpha
                null2 == IF value > alpha THEN cfg.null_window_search ELSE null_window
            IN  IF ~r.ret.some
                THEN [some |-> FALSE, st |-> r.st, best |-> best, best_move |-> best_move_]
                ELSE IF alpha2 >= beta
                THEN [some |-> TRUE, st |-> r.st, best |-> best2, best_move |-> move2]
                ELSE negamax_loop(cfg, r.st, s, depth_, alpha2, beta, moves, i + 1, best2,
                                  move2, null2)
      IN  valued(child_value(cfg, st, apply(m, s), depth_, alpha, beta, null_window))

\* a frame that updates the table also when a child has returned None
negamax_end_writing(l, hash, alpha_orig, beta, depth_) ==
    IF ~l.some
    THEN timed_out([l.st EXCEPT !.tt = update(l.st.tt, hash, alpha_orig, beta, depth_,
                                             l.best, l.best_move)])
    ELSE returns([l.st EXCEPT !.tt = update(l.st.tt, hash, alpha_orig, beta, depth_,
                                           l.best, l.best_move)],
                 clamp_value(l.best))

\* Negamaxer::negamax from the end of the loop over the moves: the None of a
\* child leaves the frame (the `?`), a value goes to the table and is returned
negamax_end(l, hash, alpha_orig, beta, depth_) ==
    IF ~l.some THEN timed_out(l.st)
    ELSE returns([l.st EXCEPT !.tt = update(l.st.tt, hash, alpha_orig, beta, depth_,
                                           l.best, l.best_move)],
                 clamp_value(l.best))

\* Negamaxer::negamax
negamax(cfg, st0, s, depth_, alpha, beta) ==
    LET node(st, winner, hash, generated) ==
          LET probed(chk) ==
                LET ordered(moves) ==
                      negamax_end(negamax_loop(cfg, st, s, depth_, chk.alpha, chk.beta, moves,
                                               1, WORST_EVAL, moves[1], FALSE),
                                  hash, alpha, chk.beta, depth_)
                IN  IF chk.ret.some THEN returns(st, chk.ret.v)
                    ELSE IF generated = <<>> THEN returns(st, WORST_EVAL)
                    ELSE ordered(good_move_first(generated, chk.good_move))
          IN  IF depth_ = 0
              THEN noisy_negamax(cfg, st, s, cfg.max_quiescence_depth, alpha, beta)
              ELSE IF winner.some THEN returns(st, winner.v)
              ELSE probed(check(st.tt, hash, depth_, alpha, beta))
    IN  back(IF timeout_load(st0) THEN timed_out(called(st0, 0))
             ELSE node([polled(called(st0, 0)) EXCEPT !.nodes_explored = @ + 1],
                       get_winner(cfg.g, s), zobrist_hash(cfg.g, s), generate_moves(cfg.g, s)),
             0)

\* the window Negamaxer::aspiration_search hands to negamax
aspiration_bounds(target, window) ==
    [alpha |-> Max(saturating_sub(target, window), WORST_EVAL),
     beta |-> saturating_add(target, window)]

\* an aspiration search that looks one ply deeper than the iteration
aspiration_search_deeper(cfg, st, s, depth_, target, window) ==
    IF depth_ < 2 THEN st
    ELSE negamax(cfg, st, s, depth_ + 1,
                 aspiration_bounds(target, window).alpha,
                 aspiration_bounds(target, window).beta).st

\* Negamaxer::aspiration_search; the Option<()> it returns is dropped by the
\* caller, what remains is the searcher
aspiration_search(cfg, st, s, depth_, target, window) ==
    IF depth_ < 2 THEN st
    ELSE negamax(cfg, st, s, depth_,
                 aspiration_bounds(target, window).alpha,
                 aspiration_bounds(target, window).beta).st

\* the reference: negamax without pruning and without table, quiescence
\* without pruning
RECURSIVE plain_noisy(_, _, _)
plain_noisy(cfg, s, dq) ==
    LET winner == get_winner(cfg.g, s)
        moves == generate_noisy_moves(cfg.g, s)
        vals == {-plain_noisy(cfg, apply(moves[i], s), dq - 1) : i \in 1..Len(moves)}
    IN  IF winner.some THEN winner.v
        ELSE IF dq = 0 \/ moves = <<>> THEN evaluate(cfg.g, s)
        ELSE CHOOSE v \in vals : \A w \in vals : w <= v

RECURSIVE plain_negamax(_, _, _)
plain_negamax(cfg, s, d) ==
    LET winner == get_winner(cfg.g, s)
        moves == generate_moves(cfg.g, s)
        vals == {-plain_negamax(cfg, apply(moves[i], s), d - 1) : i \in 1..Len(moves)}
    IN  IF d = 0 THEN plain_noisy(cfg, s, cfg.max_quiescence_depth)
        ELSE IF winner.some THEN winner.v
        ELSE IF moves = <<>> THEN WORST_EVAL
        ELSE CHOOSE v \in vals : \A w \in vals : w <= v

----------------------------------------------------------------------------
(* The serial driver, IterativeSearch.  A searcher is the record sr of its *)
(* fields, the position of its choose_move (pc, root, depth, best_move)    *)
(* and the history kept about it (last_setter, calls, log, runs, probe).   *)

\* Table::populate_pv: follow best_move links from s, at most max_len moves
RECURSIVE populate_pv(_, _, _, _)
populate_pv(g, tt, s, max_len) ==
    LET next(found) ==
          IF max_len = 0 \/ ~found.some THEN <<>>
          ELSE IF ~found.v.best_move.some THEN <<>>
          ELSE <<found.v.best_move.v>>
               \o populate_pv(g, tt, apply(found.v.best_move.v, s), max_len - 1)
    IN  next(lookup(tt, zobrist_hash(g, s)))

\* IterativeSearch::new
new_searcher(o) ==
    [opts |-> o, max_depth |-> 100, max_time |-> 5000,
     tt |-> new_table(o.table_byte_size, o.strategy),
     prev_value |-> 0, pv |-> <<>>,
     timeout |-> [kind |-> "false", fired |-> FALSE],
     pc |-> "idle", root |-> <<>>, depth |-> 0, best_move |-> None, returned |-> None,
     last_setter |-> [name |-> "new", arg |-> 0], calls |-> 0, log |-> <<>>, runs |-> <<>>,
     probe |-> observed(search_state(0, Never))]

\* IterativeSearch::set_max_depth
set_max_depth(sr, d) ==
    [sr EXCEPT !.max_depth = d, !.max_time = 0, 
               !.last_setter = [name |-> "set_max_depth", arg |-> d]]

\* IterativeSearch::set_timeout
set_timeout(sr, t) ==
    [sr EXCEPT !.max_time = t, !.max_depth = 100, 
               !.last_setter = [name |-> "set_timeout", arg |-> t]]

\* IterativeSearch::root_value
root_value(sr) == unclamp_value(sr.prev_value)

\* util::timeout_signal(max_time): a latch that a timer sets after max_time
timeout_signal(t) == [kind |-> "latch", fired |-> FALSE]

\* `self.max_depth as u8`
as_u8(n) == n % U8

\* u8 addition: the sum, and whether it overflowed
add_u8(a, b) == <<(a + b) % U8, a + b >= U8>>

\* choose_move_begin that keeps the best_move of the call before
choose_move_begin_keeping(sr, s) ==
    [sr EXCEPT !.tt = advance_generation(sr.tt),
               !.timeout = IF sr.max_time = 0 THEN [kind |-> "false", fired |-> FALSE]
                           ELSE timeout_signal(sr.max_time),
               !.root = s,
               !.depth = as_u8(sr.max_depth) % sr.opts.step_increment,
               !.pc = "loop",
               !.calls = sr.calls + 1,
               !.log = <<>>]

\* IterativeSearch::choose_move up to the loop
choose_move_begin(sr, s) ==
    [sr EXCEPT !.tt = advance_generation(sr.tt),
               !.timeout = IF sr.max_time = 0 THEN [kind |-> "false", fired |-> FALSE]
                           ELSE timeout_signal(sr.max_time),
               !.root = s,
               !.best_move = None,
               !.depth = as_u8(sr.max_depth) % sr.opts.step_increment,
               !.pc = "loop",
               !.calls = sr.calls + 1,
               !.log = <<>>]

\* the loop condition of choose_move
loop_condition(sr) == sr.depth <= as_u8(sr.max_depth)

search_cfg(g, sr) ==
    [g |-> g, max_quiescence_depth |-> sr.opts.max_quiescence_depth,
     null_window_search |-> sr.opts.null_window_search]

\* one pass of the loop as the history keeps it
pass(kind, d, depth_, ret, entry) ==
    [kind |-> kind, d |-> d, depth |-> depth_, ret |-> ret,
     best_move |-> entry.best_move, value |-> entry.value]

\* a panic unwinds choose_move; the searcher is not used again
panicked(sr, rec) == [sr EXCEPT !.pc = "panicked", !.returned = None, !.log = Append(sr.log, rec)]

\* IterativeSearch::choose_move, one pass through the loop body.  cut is the
\* number of polls of this pass that read the flag false (Never: all of them).
choose_move_iterate(g, oc, sr, cut) ==
    LET d1 == add_u8(sr.depth, 1)
        timer == IF sr.timeout.kind = "false" THEN Never
                 ELSE IF sr.timeout.fired THEN 0 ELSE cut
        none == [best_move |-> None, value |-> 0]
        next == add_u8(sr.depth, sr.opts.step_increment)
        pvlen == add_u8(add_u8(sr.depth, sr.opts.step_increment)[1], 1)
        searched(r) ==
          LET after == [sr EXCEPT !.tt = r.st.tt,
                                  !.timeout.fired = (r.st.timer = 0),
                                  !.probe = observed(r.st)]
              looked(found) ==
                LET entry == found.v
                IN  IF ~found.some
                    THEN panicked(after, pass("unwrap", sr.depth, d1[1], r.ret, none))
                    ELSE IF (next[2] \/ pvlen[2]) /\ oc
                    THEN panicked([after EXCEPT !.best_move = entry.best_move,
                                                !.prev_value = entry.value],
                                  pass("overflow", sr.depth, d1[1], r.ret, entry))
                    ELSE [after EXCEPT !.best_move = entry.best_move,
                                       !.prev_value = entry.value,
                                       !.depth = next[1],
                                       !.pv = populate_pv(g, r.st.tt, sr.root, pvlen[1]),
                                       !.log = Append(sr.log, pass("completed", sr.depth, d1[1],
                                                                   r.ret, entry))]
          IN  IF ~r.ret.some
              THEN [after EXCEPT !.pc = "break",
                                 !.log = Append(sr.log,
                                                pass("timeout", sr.depth, d1[1], None, none))]
              ELSE looked(lookup(r.st.tt, zobrist_hash(g, sr.root)))
    IN  IF d1[2] /\ oc THEN panicked(sr, pass("overflow", sr.depth, d1[1], None, none))
        ELSE searched(negamax(search_cfg(g, sr),
                              IF sr.opts.aspiration_window.some
                              THEN aspiration_search(search_cfg(g, sr),
                                                     search_state(sr.tt, timer), sr.root, d1[1],
                                                     sr.prev_value, sr.opts.aspiration_window.v)
                              ELSE search_state(sr.tt, timer),
                              sr.root, d1[1], WORST_EVAL, BEST_EVAL))

\* the history of completed calls: the latest MaxRuns of them; `call` is
\* the number of the call on its searcher, and `bounded` tells that the
\* call and all calls before it were depth-bounded
recent(q) == IF Len(q) > MaxRuns THEN Tail(q) ELSE q
run_of(sr) ==
    [call |-> sr.calls, max_depth |-> sr.max_depth, max_time |-> sr.max_time,
     root |-> sr.root, move |-> sr.best_move,
     root_value |-> unclamp_value(sr.prev_value),
     bounded |-> sr.max_time = 0 /\ (sr.runs = <<>> \/ sr.runs[Len(sr.runs)].bounded)]

\* IterativeSearch::choose_move from the end of the loop
choose_move_return(sr) ==
    [sr EXCEPT !.pc = "idle",
               !.returned = sr.best_move,
               !.log = <<>>,
               !.runs = recent(Append(sr.runs, run_of(sr)))]

----------------------------------------------------------------------------
(* The parallel searcher, ParallelYbw.                                     *)
(* cfg = [g, max_quiescence_depth, null_window_search, serial_cutoff_depth]*)
(* st is as for the serial searcher, st.tt being the ConcurrentTable.      *)

\* ConcurrentTable::concurrent_update: update, visible atomically
concurrent_update(tt, hash, alpha_orig, beta, depth_, best, best_move_) ==
    update(tt, hash, alpha_orig, beta, depth_, best, best_move_)

\* util::ValueMove::max: keep the greater value, the earlier one on a tie
ValueMove_max(bests, value, m) ==
    IF value > bests.value THEN [value |-> value, move |-> m] ELSE bests

\* a quiescence search that goes one ply beyond its budget
ybw_noisy_negamax_deeper(cfg, st, s, depth_, alpha, beta) ==
    noisy_negamax(cfg, st, s, depth_ + 1, alpha, beta)

\* ParallelYbw::noisy_negamax (the text of Negamaxer::noisy_negamax)
ybw_noisy_negamax(cfg, st, s, depth_, alpha, beta) ==
    noisy_negamax(cfg, st, s, depth_, alpha, beta)

RECURSIVE ybw_negamax(_, _, _, _, _, _)
RECURSIVE ybw_frame(_, _, _, _, _, _)
RECURSIVE ybw_serial_loop(_, _, _, _, _, _, _, _, _, _, _, _)
RECURSIVE ybw_one_thread(_, _, _, _, _, _, _, _, _, _)

\* the three searches a child of a ParallelYbw frame can be given
ybw_full(cfg, st, s, depth_, beta, alpha) ==
    LET na == neg32(alpha)
        nb == neg32(beta)
    IN  negated(ybw_negamax(cfg, noting(st, na[2] \/ nb[2]), s, depth_ - 1, nb[1], na[1]))
ybw_probe(cfg, st, s, depth_, alpha) ==
    LET na == neg32(alpha)
        na1 == dec32(neg32(alpha)[1])
    IN  negated(ybw_negamax(cfg, noting(st, na[2] \/ na1[2]), s, depth_ - 1, na1[1], na[1]))
ybw_research(cfg, st, s, depth_, beta, probe_) ==
    LET nb == neg32(beta)
        np == neg32(probe_)
    IN  negated(ybw_negamax(cfg, noting(st, nb[2] \/ np[2]), s, depth_ - 1, nb[1], np[1]))

\* ParallelYbw::negamax, the "Serial search" branch: the loop over the moves
\* other than first_move
ybw_serial_loop(cfg, st, s, depth_, alpha, beta, moves, first_move, i, best, best_move_, null_window) ==
    IF i > Len(moves) THEN [some |-> TRUE, st |-> st, best |-> best, best_move |-> best_move_]
    ELSE IF moves[i] = first_move
    THEN ybw_serial_loop(cfg, st, s, depth_, alpha, beta, moves, first_move, i + 1, best,
                         best_move_, null_window)
    ELSE
      LET m == moves[i]
          probed(r1) ==
            IF ~r1.ret.some THEN r1
            ELSE IF r1.ret.v > alpha /\ r1.ret.v < beta
            THEN ybw_research(cfg, r1.st, apply(m, s), depth_, beta, r1.ret.v)
            ELSE r1
          valued(r) ==
            LET value == r.ret.v
                best2 == IF value > best THEN value ELSE best
                move2 == IF value > best THEN m ELSE best_move_
                alpha2 == IF value > alpha THEN value ELSE alpha
                null2 == IF value > alpha THEN cfg.null_window_search ELSE null_window
            IN  IF ~r.ret.some
                THEN [some |-> FALSE, st |-> r.st, best |-> best, best_move |-> best_move_]
                ELSE IF alpha2 >= beta
                THEN [some |-> TRUE, st |-> r.st, best |-> best2, best_move |-> move2]
                ELSE ybw_serial_loop(cfg, r.st, s, depth_, alpha2, beta, moves, first_move,
                                     i + 1, best2, move2, null2)
      IN  valued(IF null_window
                 THEN probed(ybw_probe(cfg, st, apply(m, s), depth_, alpha))
                 ELSE ybw_full(cfg, st, apply(m, s), depth_, beta, alpha))

\* ParallelYbw::negamax, the "Parallel search" branch run by a pool of one
\* thread: the closures run one after the other in the order of moves, and
\* try_for_each stops at the first None
ybw_one_thread(cfg, st, s, depth_, alpha_orig, beta, moves, i, alpha, bests) ==
    IF i > Len(moves) THEN [none |-> FALSE, st |-> st, bests |-> bests]
    ELSE
      LET m == moves[i]
          probed(r1) ==
            IF ~r1.ret.some THEN r1
            ELSE IF r1.ret.v > alpha /\ r1.ret.v < beta
            THEN ybw_research(cfg, r1.st, apply(m, s), depth_, beta, r1.ret.v)
            ELSE r1
          valued(r) ==
            IF ~r.ret.some THEN [none |-> TRUE, st |-> r.st, bests |-> bests]
            ELSE ybw_one_thread(cfg, r.st, s, depth_, alpha_orig, beta, moves, i + 1,
                                Max(alpha, r.ret.v), ValueMove_max(bests, r.ret.v, m))
      IN  IF alpha >= beta THEN [none |-> TRUE, st |-> st, bests |-> bests]
          ELSE valued(IF cfg.null_window_search /\ alpha > alpha_orig
                      THEN probed(ybw_probe(cfg, st, apply(m, s), depth_, alpha))
                      ELSE ybw_full(cfg, st, apply(m, s), depth_, beta, alpha))

\* ParallelYbw::negamax, the end of a frame: the table update and the return
ybw_finish(st, hash, alpha_orig, beta, depth_, best, best_move_) ==
    returns([st EXCEPT !.tt = concurrent_update(st.tt, hash, alpha_orig, beta, depth_,
                                                  best, best_move_)],
            clamp_value(best))

\* ParallelYbw::negamax up to the parallel region: either the frame returns
\* (kind "ret") or it is about to fan out (kind "fork")
ybw_frame(cfg, st0, s, depth_, alpha, beta) ==
    LET ret(r) == [kind |-> "ret", r |-> r]
        node(st, winner, hash, moves) ==
          LET probed(chk) ==
                LET first_move == IF chk.good_move.some THEN chk.good_move.v ELSE moves[1]
                    first(r0) ==
                      LET initial_value == r0.ret.v
                          alpha1 == Max(chk.alpha, r0.ret.v)
                          serial(l) ==
                            IF ~l.some THEN ret(timed_out(l.st))
                            ELSE ret(ybw_finish(l.st, hash, alpha, chk.beta, depth_,
                                                l.best, l.best_move))
                      IN  IF ~r0.ret.some THEN ret(r0)
                          ELSE IF alpha1 >= chk.beta
                          THEN ret(ybw_finish(r0.st, hash, alpha, chk.beta, depth_,
                                              initial_value, first_move))
                          ELSE IF cfg.serial_cutoff_depth >= depth_
                          THEN serial(ybw_serial_loop(cfg, r0.st, s, depth_, alpha1, chk.beta,
                                                      moves, first_move, 1, initial_value,
                                                      first_move, FALSE))
                          ELSE [kind |-> "fork", st |-> r0.st, s |-> s, hash |-> hash,
                                depth |-> depth_, alpha_orig |-> alpha, beta |-> chk.beta,
                                moves |-> moves, first_move |-> first_move, alpha |-> alpha1,
                                bests |-> [value |-> initial_value, move |-> first_move]]
                IN  IF chk.ret.some THEN ret(returns(st, chk.ret.v))
                    ELSE IF moves = <<>> THEN ret(returns(st, WORST_EVAL))
                    ELSE first(ybw_full(cfg, st, apply(first_move, s), depth_,
                                        chk.beta, chk.alpha))
          IN  IF depth_ = 0
              THEN ret(ybw_noisy_negamax(cfg, st, s, cfg.max_quiescence_depth, alpha, beta))
              ELSE IF winner.some THEN ret(returns(st, winner.v))
              ELSE probed(check(st.tt, hash, depth_, alpha, beta))
    IN  IF timeout_load(st0) THEN ret(timed_out(st0))
        ELSE node(polled(st0), get_winner(cfg.g, s), zobrist_hash(cfg.g, s),
                  generate_moves(cfg.g, s))

\* a join that takes every None of the region for a timeout
ybw_join_any_none(f, none, st, bests) ==
    IF none THEN timed_out(st)
    ELSE ybw_finish(st, f.hash, f.alpha_orig, f.beta, f.depth, bests.value, bests.move)

\* ParallelYbw::negamax from the end of the parallel region
ybw_join(f, none, st, bests) ==
    IF none /\ timeout_load(st) THEN timed_out(st)
    ELSE ybw_finish(st, f.hash, f.alpha_orig, f.beta, f.depth, bests.value, bests.move)

\* ParallelYbw::negamax of a frame below the root
ybw_negamax(cfg, st0, s, depth_, alpha, beta) ==
    LET joined(f, p) == ybw_join(f, p.none, p.st, p.bests)
        framed(f) ==
          IF f.kind = "ret" THEN f.r
          ELSE joined(f, ybw_one_thread(cfg, f.st, s, depth_, f.alpha_orig, f.beta, f.moves, 1,
                                        f.alpha, f.bests))
    IN  framed(ybw_frame(cfg, st0, s, depth_, alpha, beta))

----------------------------------------------------------------------------
(* The parallel region of the root frame, step by step.  rg is the region: *)
(*   f      the frame that forked (ybw_frame, kind "fork"), with the move  *)
(*          it searched serially before the region (first_move) and the    *)
(*          value of that search (initial_value)                           *)
(*   st     the searcher as the workers share it (table, timer)            *)
(*   alpha  the AtomicI32                                                  *)
(*   bests  the ValueMove under the mutex                                  *)
(*   none   a closure has returned None                                    *)
(*   w      per move of f.moves, the closure's position: pending, loaded,  *)
(*          probed, research, valued, maxed, done, none, skipped           *)
(* y.regions counts the regions the running choose_move has opened.        *)

new_region(f) ==
    [f |-> [hash |-> f.hash, s |-> f.s, depth |-> f.depth, alpha_orig |-> f.alpha_orig,
            beta |-> f.beta, moves |-> f.moves, first_move |-> f.first_move,
            initial_value |-> f.bests.value],
     st |-> f.st, alpha |-> f.alpha, bests |-> f.bests, none |-> FALSE,
     w |-> [i \in 1..Len(f.moves) |->
               [pc |-> "pending", initial_alpha |-> 0, probe |-> 0, value |-> 0]]]

no_region == [f |-> 0, st |-> 0, alpha |-> 0, bests |-> 0, none |-> FALSE, w |-> <<>>]

worker_returns_none(rg, i, st) ==
    [rg EXCEPT !.w[i].pc = "none", !.none = TRUE, !.st = st]

\* the closure's `alpha.load(SeqCst)` and cancellation test
worker_load(rg, i) ==
    IF rg.alpha >= rg.f.beta THEN worker_returns_none(rg, i, rg.st)
    ELSE [rg EXCEPT !.w[i].pc = "loaded", !.w[i].initial_alpha = rg.alpha]

\* the closure's first search of its child: the probe or the full window
worker_search(cfg, rg, i) ==
    LET child == apply(rg.f.moves[i], rg.f.s)
        a == rg.w[i].initial_alpha
        nw == cfg.null_window_search /\ a > rg.f.alpha_orig
        searched(r) ==
          IF ~r.ret.some THEN worker_returns_none(rg, i, r.st)
          ELSE IF nw /\ r.ret.v > a /\ r.ret.v < rg.f.beta
          THEN [rg EXCEPT !.w[i].pc = "probed", !.w[i].probe = r.ret.v, !.st = r.st]
          ELSE [rg EXCEPT !.w[i].pc = "valued", !.w[i].value = r.ret.v, !.st = r.st]
    IN  searched(IF nw THEN ybw_probe(cfg, rg.st, child, rg.f.depth, a)
                 ELSE ybw_full(cfg, rg.st, child, rg.f.depth, rg.f.beta, a))

\* "Check again that we're not cancelled"
worker_recheck(rg, i) ==
    IF rg.alpha >= rg.f.beta THEN worker_returns_none(rg, i, rg.st)
    ELSE [rg EXCEPT !.w[i].pc = "research"]

\* "Full search fallback"
worker_research(cfg, rg, i) ==
    LET searched(r) ==
          IF ~r.ret.some THEN worker_returns_none(rg, i, r.st)
          ELSE [rg EXCEPT !.w[i].pc = "valued", !.w[i].value = r.ret.v, !.st = r.st]
    IN  searched(ybw_research(cfg, rg.st, apply(rg.f.moves[i], rg.f.s), rg.f.depth, rg.f.beta,
                              rg.w[i].probe))

\* alpha.fetch_max(value, SeqCst)
worker_fetch_max(rg, i) ==
    [rg EXCEPT !.w[i].pc = "maxed", !.alpha = Max(rg.alpha, rg.w[i].value)]

\* worker_best that overwrites the record
worker_best_last(rg, i) ==
    [rg EXCEPT !.w[i].pc = "done",
               !.bests = [value |-> rg.w[i].value, move |-> rg.f.moves[i]]]

\* worker_best that leaves the record alone once a closure has returned None
worker_best_unless_none(rg, i) ==
    [rg EXCEPT !.w[i].pc = "done",
               !.bests = IF rg.none THEN rg.bests
                         ELSE ValueMove_max(rg.bests, rg.w[i].value, rg.f.moves[i])]

\* best_move.lock().unwrap().max(value, m)
worker_best(rg, i) ==
    [rg EXCEPT !.w[i].pc = "done",
               !.bests = ValueMove_max(rg.bests, rg.w[i].value, rg.f.moves[i])]

\* try_for_each does not start a closure once another has returned None
worker_skip(rg, i) == [rg EXCEPT !.w[i].pc = "skipped"]

region_over(rg) == \A i \in 1..Len(rg.w) : rg.w[i].pc \in {"done", "none", "skipped"}

----------------------------------------------------------------------------
(* The parallel driver, ParallelYbw.                                       *)

\* ConcurrentTable::new
new_concurrent_table(table_byte_size, strategy) == new_table(table_byte_size, strategy)

\* YbwOptions::new
YbwOptions_new ==
    [table_byte_size |-> 32000000, null_window_search |-> TRUE, step_increment |-> 1,
     max_quiescence_depth |-> 0, serial_cutoff_depth |-> 1]

\* ParallelYbw::new; cstrategy is the replacement the ConcurrentTable implements
new_ybw(o, cstrategy) ==
    [opts |-> o, max_depth |-> 100, max_time |-> 5000,
     tt |-> new_concurrent_table(o.table_byte_size, cstrategy),
     prev_value |-> 0, pv |-> <<>>,
     timeout |-> [kind |-> "false", fired |-> FALSE],
     pc |-> "idle", root |-> <<>>, depth |-> 0, best_move |-> None, returned |-> None,
     last_setter |-> [name |-> "new", arg |-> 0], calls |-> 0, log |-> <<>>, runs |-> <<>>,
     probe |-> observed(search_state(0, Never)),
     region |-> no_region, regions |-> 0]

ybw_cfg(g, y) ==
    [g |-> g, max_quiescence_depth |-> y.opts.max_quiescence_depth,
     null_window_search |-> y.opts.null_window_search,
     serial_cutoff_depth |-> y.opts.serial_cutoff_depth]

\* ParallelYbw::choose_move up to the loop
ybw_choose_move_begin(y, s) ==
    [y EXCEPT !.tt = advance_generation(y.tt),
              !.timeout = IF y.max_time = 0 THEN [kind |-> "false", fired |-> FALSE]
                          ELSE timeout_signal(y.max_time),
              !.root = s,
              !.best_move = None,
              !.depth = as_u8(y.max_depth) % y.opts.step_increment,
              !.pc = "loop",
              !.calls = y.calls + 1,
              !.log = <<>>,
              !.regions = 0]

\* ParallelYbw::choose_move, the loop body from the return of the root search
ybw_after_search(g, oc, y, r) ==
    LET d1 == add_u8(y.depth, 1)
        after == [y EXCEPT !.tt = r.st.tt,
                           !.timeout.fired = (r.st.timer = 0),
                           !.region = no_region,
                           !.probe = observed(r.st)]
        none == [best_move |-> None, value |-> 0]
        next == add_u8(y.depth, y.opts.step_increment)
        pvlen == add_u8(add_u8(y.depth, y.opts.step_increment)[1], 1)
        looked(found) ==
          LET entry == found.v
          IN  IF ~found.some
              THEN panicked(after, pass("unwrap", y.depth, d1[1], r.ret, none))
              ELSE IF (next[2] \/ pvlen[2]) /\ oc
              THEN panicked([after EXCEPT !.best_move = entry.best_move,
                                          !.prev_value = entry.value],
                            pass("overflow", y.depth, d1[1], r.ret, entry))
              ELSE [after EXCEPT !.best_move = entry.best_move,
                                 !.prev_value = entry.value,
                                 !.depth = next[1],
                                 !.pc = "loop",
                                 !.pv = populate_pv(g, r.st.tt, y.root, pvlen[1]),
                                 !.log = Append(y.log, pass("completed", y.depth, d1[1],
                                                            r.ret, entry))]
    IN  IF ~r.ret.some
        THEN [after EXCEPT !.pc = "break",
                           !.log = Append(y.log, pass("timeout", y.depth, d1[1], None, none))]
        ELSE looked(lookup(r.st.tt, zobrist_hash(g, y.root)))

\* ParallelYbw::choose_move, the loop body up to the return of the root search
\* or to the fork of the root frame
ybw_choose_move_iterate(g, oc, y, cut) ==
    LET d1 == add_u8(y.depth, 1)
        timer == IF y.timeout.kind = "false" THEN Never
                 ELSE IF y.timeout.fired THEN 0 ELSE cut
        none == [best_move |-> None, value |-> 0]
        framed(f) ==
          IF f.kind = "ret" THEN ybw_after_search(g, oc, y, f.r)
          ELSE [y EXCEPT !.pc = "region", !.region = new_region(f), !.tt = f.st.tt,
                         !.regions = y.regions + 1]
    IN  IF d1[2] /\ oc THEN panicked(y, pass("overflow", y.depth, d1[1], None, none))
        ELSE framed(ybw_frame(ybw_cfg(g, y), search_state(y.tt, timer), y.root, d1[1],
                              WORST_EVAL, BEST_EVAL))

\* the root frame from the end of its parallel region
ybw_region_join(g, oc, y) ==
    ybw_after_search(g, oc, y,
                     ybw_join(y.region.f, y.region.none, y.region.st, y.region.bests))

\* a step of a closure of the root region
ybw_region_step(y, rg) == [y EXCEPT !.region = rg, !.tt = rg.st.tt]

\* ParallelYbw::choose_move from the end of the loop
ybw_choose_move_return(y) == choose_move_return(y)

\* ParallelYbw::set_max_depth, ParallelYbw::set_timeout
ybw_set_max_depth(y, d) == set_max_depth(y, d)
ybw_set_timeout(y, t) == set_timeout(y, t)

----------------------------------------------------------------------------
(* The state machine.  The program constructs one searcher, IterativeSearch *)
(* or ParallelYbw, and calls its methods; the searcher it did not          *)
(* construct stays "unbuilt".  Beside an IterativeSearch runs its twin,    *)
(* given the same calls.                                                   *)

Self ==
    [opts |-> opts, max_depth |-> max_depth, max_time |-> max_time,
     tt |-> [table |-> table, mask |-> mask, generation |-> generation,
             strategy |-> opts.strategy],
     prev_value |-> prev_value, pv |-> pv, timeout |-> timeout,
     pc |-> pc, root |-> root, depth |-> depth, best_move |-> best_move,
     returned |-> returned, last_setter |-> last_setter, calls |-> calls,
     log |-> log, runs |-> runs, probe |-> probe]

Become(sr) ==
    /\ opts' = sr.opts
    /\ max_depth' = sr.max_depth
    /\ max_time' = sr.max_time
    /\ table' = sr.tt.table
    /\ mask' = sr.tt.mask
    /\ generation' = sr.tt.generation
    /\ prev_value' = sr.prev_value
    /\ pv' = sr.pv
    /\ timeout' = sr.timeout
    /\ pc' = sr.pc
    /\ root' = sr.root
    /\ depth' = sr.depth
    /\ best_move' = sr.best_move
    /\ returned' = sr.returned
    /\ last_setter' = sr.last_setter
    /\ calls' = sr.calls
    /\ log' = sr.log
    /\ runs' = sr.runs
    /\ probe' = sr.probe

Built(sr) ==
    /\ opts = sr.opts
    /\ max_depth = sr.max_depth
    /\ max_time = sr.max_time
    /\ table = sr.tt.table
    /\ mask = sr.tt.mask
    /\ generation = sr.tt.generation
    /\ prev_value = sr.prev_value
    /\ pv = sr.pv
    /\ timeout = sr.timeout
    /\ pc = sr.pc
    /\ root = sr.root
    /\ depth = sr.depth
    /\ best_move = sr.best_move
    /\ returned = sr.returned
    /\ last_setter = sr.last_setter
    /\ calls = sr.calls
    /\ log = sr.log
    /\ runs = sr.runs
    /\ probe = sr.probe

serial_vars == <<opts, max_depth, max_time, table, mask, generation, prev_value,
                 pv, timeout, pc, root, depth, best_move,
                 returned, last_setter, calls, log, runs, probe, twin>>

Strategies == {"Always", "DepthPreferred", "TwoTier"}

Games(seeds, kinds, bases) == [seed : seeds, root_kind : kinds, hash_base : bases]

\* IterativeOptions::new() followed by the with_* builders
Options(slots, strategies, windows, steps, quiescence) ==
    [table_byte_size : {n * SizeOfEntry : n \in slots},
     strategy : strategies,
     null_window_search : {TRUE},
     aspiration_window : windows,
     step_increment : steps,
     max_quiescence_depth : quiescence]

\* YbwOptions::new() followed by the with_* builders
YbwOptions(slots, nulls, steps, quiescence) ==
    {[YbwOptions_new EXCEPT !.table_byte_size = n * SizeOfEntry,
                            !.null_window_search = nw,
                            !.step_increment = st,
                            !.max_quiescence_depth = q] :
        n \in slots, nw \in nulls, st \in steps, q \in quiescence}

unbuilt(sr) == [sr EXCEPT !.pc = "unbuilt"]

NoOptions ==
    [table_byte_size |-> SizeOfEntry, strategy |-> "Always", null_window_search |-> TRUE,
     aspiration_window |-> None, step_increment |-> 1, max_quiescence_depth |-> 0]

\* no call has been made on the table itself
NoCalls == [stores |-> 0, hashes |-> {}, last |-> None, looked |-> None, panicked |-> FALSE]

\* the program constructs an IterativeSearch
InitSerial(games, options, profiles) ==
    /\ game \in games
    /\ direct = NoCalls
    /\ overflow_checks \in profiles
    /\ \E o \in options :
         /\ Built(new_searcher(o))
         /\ twin = new_searcher([o EXCEPT !.null_window_search = FALSE])
    /\ ybw = unbuilt(new_ybw([YbwOptions_new EXCEPT !.table_byte_size = SizeOfEntry], "Always"))

\* the program constructs a ParallelYbw
InitYbw(games, options, profiles) ==
    /\ game \in games
    /\ direct = NoCalls
    /\ overflow_checks \in profiles
    /\ \E o \in options, cs \in Strategies : ybw = new_ybw(o, cs)
    /\ Built(unbuilt(new_searcher(NoOptions)))
    /\ twin = unbuilt(new_searcher(NoOptions))

\* the polls at which the timer of a running choose_move may fire
Cuts(sr) == IF sr.timeout.kind = "latch" /\ ~sr.timeout.fired
            THEN (IF Len(sr.log) < MaxTimedIters THEN (0..MaxCut) \cup {Never} ELSE {0})
            ELSE {Never}

\* the second searcher is driven with the same calls; its loop ends with the
\* first searcher's at the latest (its timer has fired by then)
twin_iterate(g, oc, tw, cut) ==
    IF tw.pc = "loop" /\ loop_condition(tw) THEN choose_move_iterate(g, oc, tw, cut) ELSE tw
twin_return(g, oc, tw) ==
    IF tw.pc = "panicked" THEN tw
    ELSE IF tw.pc = "loop" /\ loop_condition(tw)
    THEN choose_move_return(choose_move_iterate(g, oc, [tw EXCEPT !.timeout.fired = TRUE], 0))
    ELSE choose_move_return(tw)

SetMaxDepth(d, n) ==
    /\ pc = "idle"
    /\ calls < n
    /\ Become(set_max_depth(Self, d))
    /\ twin' = set_max_depth(twin, d)
    /\ UNCHANGED <<game, overflow_checks, ybw, direct>>

SetTimeout(t, n) ==
    /\ pc = "idle"
    /\ calls < n
    /\ Become(set_timeout(Self, t))
    /\ twin' = set_timeout(twin, t)
    /\ UNCHANGED <<game, overflow_checks, ybw, direct>>

ChooseMove(s, n) ==
    /\ pc = "idle"
    /\ calls < n
    /\ Become(choose_move_begin(Self, s))
    /\ twin' = IF twin.pc = "panicked" THEN twin ELSE choose_move_begin(twin, s)
    /\ UNCHANGED <<game, overflow_checks, ybw, direct>>

Iterate ==
    /\ pc = "loop"
    /\ loop_condition(Self)
    /\ \E cut \in Cuts(Self) :
         /\ Become(choose_move_iterate(game, overflow_checks, Self, cut))
         /\ twin' = twin_iterate(game, overflow_checks, twin, cut)
    /\ UNCHANGED <<game, overflow_checks, ybw, direct>>

Return ==
    /\ \/ pc = "loop" /\ ~loop_condition(Self)
       \/ pc = "break"
    /\ Become(choose_move_return(Self))
    /\ twin' = twin_return(game, overflow_checks, twin)
    /\ UNCHANGED <<game, overflow_checks, ybw, direct>>

(* ParallelYbw *)

YbwBecome(y) ==
    /\ ybw' = y
    /\ UNCHANGED <<game, overflow_checks, serial_vars, direct>>

YbwSetMaxDepth(d, n) ==
    /\ ybw.pc = "idle"
    /\ ybw.calls < n
    /\ YbwBecome(ybw_set_max_depth(ybw, d))

YbwSetTimeout(t, n) ==
    /\ ybw.pc = "idle"
    /\ ybw.calls < n
    /\ YbwBecome(ybw_set_timeout(ybw, t))

YbwChooseMove(s, n) ==
    /\ ybw.pc = "idle"
    /\ ybw.calls < n
    /\ YbwBecome(ybw_choose_move_begin(ybw, s))

\* the polls at which the timer of a running parallel choose_move may fire
YbwCuts == IF ybw.timeout.kind = "latch" /\ ~ybw.timeout.fired
           THEN (IF Len(ybw.log) < MaxYbwTimedIters THEN (0..MaxCut) \cup {Never} ELSE {0})
           ELSE {Never}

YbwIterate ==
    /\ ybw.pc = "loop"
    /\ loop_condition(ybw)
    /\ \E cut \in YbwCuts :
         YbwBecome(ybw_choose_move_iterate(game, overflow_checks, ybw, cut))

Worker(i, at) ==
    /\ ybw.pc = "region"
    /\ i \in 1..Len(ybw.region.w)
    /\ ybw.region.w[i].pc = at

WorkerLoad(i) ==
    /\ Worker(i, "pending")
    /\ YbwBecome(ybw_region_step(ybw, worker_load(ybw.region, i)))

WorkerSkip(i) ==
    /\ Worker(i, "pending")
    /\ ybw.region.none
    /\ YbwBecome(ybw_region_step(ybw, worker_skip(ybw.region, i)))

WorkerSearch(i) ==
    /\ Worker(i, "loaded")
    /\ YbwBecome(ybw_region_step(ybw, worker_search(ybw_cfg(game, ybw), ybw.region, i)))

WorkerRecheck(i) ==
    /\ Worker(i, "probed")
    /\ YbwBecome(ybw_region_step(ybw, worker_recheck(ybw.region, i)))

WorkerResearch(i) ==
    /\ Worker(i, "research")
    /\ YbwBecome(ybw_region_step(ybw, worker_research(ybw_cfg(game, ybw), ybw.region, i)))

WorkerFetchMax(i) ==
    /\ Worker(i, "valued")
    /\ YbwBecome(ybw_region_step(ybw, worker_fetch_max(ybw.region, i)))

WorkerBest(i) ==
    /\ Worker(i, "maxed")
    /\ YbwBecome(ybw_region_step(ybw, worker_best(ybw.region, i)))

RegionJoin ==
    /\ ybw.pc = "region"
    /\ region_over(ybw.region)
    /\ YbwBecome(ybw_region_join(game, overflow_checks, ybw))

YbwReturn ==
    /\ \/ ybw.pc = "loop" /\ ~loop_condition(ybw)
       \/ ybw.pc = "break"
    /\ YbwBecome(ybw_choose_move_return(ybw))

Workers == 1..MaxBranch
Roots == {<<>>}
Durations == {50}

Init ==
    \/ InitSerial(Games(1..NumSeeds, {"inner", "dead"}, {1}),
                  Options({2}, Strategies, {None, Some(1)}, {1, 2}, {0, 1}),
                  {FALSE})
    \/ InitYbw(Games(1..NumSeeds, {"inner", "dead"}, {1}),
               YbwOptions({2}, {TRUE, FALSE}, {1}, {0, 1}),
               {FALSE})

Next ==
    \/ \E d \in 0..MaxDepthArg : SetMaxDepth(d, MaxCalls)
    \/ \E t \in Durations : SetTimeout(t, MaxCalls)
    \/ \E s \in Roots : ChooseMove(s, MaxCalls)
    \/ Iterate
    \/ Return
    \/ \E d \in 0..MaxDepthArg : YbwSetMaxDepth(d, MaxYbwCalls)
    \/ \E t \in Durations : YbwSetTimeout(t, MaxYbwCalls)
    \/ \E s \in Roots : YbwChooseMove(s, MaxYbwCalls)
    \/ YbwIterate
    \/ \E i \in Workers : WorkerLoad(i)
    \/ \E i \in Workers : WorkerSkip(i)
    \/ \E i \in Workers : WorkerSearch(i)
    \/ \E i \in Workers : WorkerRecheck(i)
    \/ \E i \in Workers : WorkerResearch(i)
    \/ \E i \in Workers : WorkerFetchMax(i)
    \/ \E i \in Workers : WorkerBest(i)
    \/ RegionJoin
    \/ YbwReturn

Spec == Init /\ [][Next]_vars

(* The driver with the depths and durations at the edges of its counters:  *)
(* one call of an IterativeSearch built with overflow checks.              *)
EdgeDepths == {0, 1, 2, U8 - 1, U8, U8 + 1}
EdgeDurations == {0, 50}

InitDriver ==
    InitSerial(Games(1..2, {"inner"}, {1}),
               Options({2}, {"TwoTier"}, {None}, {1, 2}, {0}),
               {TRUE})

NextDriver ==
    \/ \E d \in EdgeDepths : SetMaxDepth(d, 1)
    \/ \E t \in EdgeDurations : SetTimeout(t, 1)
    \/ \E s \in Roots : ChooseMove(s, 1)
    \/ Iterate
    \/ Return

SpecDriver == InitDriver /\ [][NextDriver]_vars

(* A searcher that lives through more calls than the generation counts:    *)
(* U8 calls at one depth on the initial position, then one call on a       *)
(* position whose hash shares the slot of the initial position.            *)
WrapRoot == IF calls < U8 THEN <<>> ELSE <<2>>

InitWrap ==
    InitSerial(Games(1..2, {"inner"}, {1}),
               Options({2}, Strategies, {None}, {1}, {0}),
               {FALSE})

WrapSetMaxDepth(d) ==
    /\ calls \in {0, U8}
    /\ SetMaxDepth(d, U8 + 1)

WrapChooseMove ==
    /\ last_setter.name = "set_max_depth"
    /\ ChooseMove(WrapRoot, U8 + 1)

NextWrap ==
    \/ \E d \in 0..1 : WrapSetMaxDepth(d)
    \/ WrapChooseMove
    \/ Iterate
    \/ Return

SpecWrap == InitWrap /\ [][NextWrap]_vars

(* A searcher that is kept for several depth-bounded calls on the initial  *)
(* position.                                                               *)
ReuseCalls == 3

ReuseDepths == 0..(MaxDepthArg + 1)

InitReuse ==
    InitSerial(Games(1..NumSeeds, {"inner"}, {1}),
               Options({2}, Strategies, {None, Some(1)}, {1, 2}, {0}),
               {FALSE})

ReuseChooseMove ==
    /\ last_setter.name = "set_max_depth"
    /\ ChooseMove(<<>>, ReuseCalls)

NextReuse ==
    \/ \E d \in ReuseDepths : SetMaxDepth(d, ReuseCalls)
    \/ ReuseChooseMove
    \/ Iterate
    \/ Return

SpecReuse == InitReuse /\ [][NextReuse]_vars

(* The transposition table of a new searcher on its own: store, lookup and *)
(* advance_generation are called on it directly.                           *)
MaxHash == 2         \* the hashes are 0..MaxHash
MaxStores == 3       \* stores made on the table
MaxAdvances == 1     \* advance_generation calls made on the table

TableByteSizes == {SizeOfEntry, 2 * SizeOfEntry + 1, 3 * SizeOfEntry}
TableDepths == {3, 5, 7}
Payloads ==
    {[value |-> 0, flag |-> "Exact", best_move |-> 1],
     [value |-> 7, flag |-> "Lowerbound", best_move |-> 2],
     [value |-> -7, flag |-> "Upperbound", best_move |-> 1]}

beside_table == <<game, opts, max_depth, max_time, mask, prev_value, pv, timeout, pc,
                  root, depth, best_move, returned, last_setter, calls, log, runs,
                  probe, twin, overflow_checks, ybw>>

InitTable ==
    InitSerial(Games({1}, {"inner"}, {1}),
               {[NoOptions EXCEPT !.table_byte_size = b, !.strategy = st] :
                   b \in TableByteSizes, st \in Strategies},
               {FALSE})

TableStore(hash, depth_, p) ==
    /\ ~direct.panicked
    /\ direct.stores < MaxStores
    /\ IF store_panics(Self.tt, hash, depth_)
       THEN /\ direct' = [direct EXCEPT !.panicked = TRUE, !.looked = None]
            /\ table' = table
       ELSE /\ table' = store(Self.tt, hash, p.value, depth_, p.flag, p.best_move).table
            /\ direct' = [direct EXCEPT
                   !.stores = @ + 1,
                   !.hashes = @ \cup {hash},
                   !.last = Some(Entry(hash, p.value, depth_, p.flag, generation,
                                       Some(p.best_move))),
                   !.looked = None]
    /\ UNCHANGED <<generation, beside_table>>

TableAdvance ==
    /\ ~direct.panicked
    /\ generation < MaxAdvances
    /\ generation' = advance_generation(Self.tt).generation
    /\ direct' = [direct EXCEPT !.looked = None]
    /\ UNCHANGED <<table, beside_table>>

TableLookup(hash) ==
    /\ ~direct.panicked
    /\ direct' = IF lookup_panics(Self.tt, hash)
                 THEN [direct EXCEPT !.panicked = TRUE, !.looked = None]
                 ELSE [direct EXCEPT !.looked = Some([hash |-> hash,
                                                      ret |-> lookup(Self.tt, hash)])]
    /\ UNCHANGED <<table, generation, beside_table>>

NextTable ==
    \/ \E hash \in 0..MaxHash, depth_ \in TableDepths, p \in Payloads :
          TableStore(hash, depth_, p)
    \/ TableAdvance
    \/ \E hash \in 0..MaxHash : TableLookup(hash)

SpecTable == InitTable /\ [][NextTable]_vars

(* Both searchers on the games on which a parallel region of the root is   *)
(* cancelled: a closure raises alpha to beta (a won child) while the       *)
(* closure of another move has not loaded alpha yet.                       *)
CancelSeeds == {Len(Trees) + 15, Len(Trees) + 104}

InitCancel ==
    \/ InitSerial(Games(CancelSeeds, {"inner"}, {1}),
                  Options({2}, Strategies, {None, Some(1)}, {1}, {0}),
                  {FALSE})
    \/ InitYbw(Games(1..Len(Trees) \cup CancelSeeds, {"inner"}, {1}),
               YbwOptions({2}, {TRUE, FALSE}, {1}, {0}),
               {FALSE})

SpecCancel == InitCancel /\ [][Next]_vars

----------------------------------------------------------------------------
(* C1: on a new searcher, every full-window root search of the first       *)
(* choose_move that returns a value returns the value of the unpruned      *)
(* negamax of the same depth, searched without table.                      *)
Sound(sr) ==
    sr.calls = 1 =>
        \A i \in 1..Len(sr.log) :
            sr.log[i].ret.some =>
                sr.log[i].ret.v = plain_negamax(search_cfg(game, sr), sr.root, sr.log[i].depth)

C1_AlphaBetaSound == Sound(Self) /\ Sound(twin)

C1_Witness ==
    /\ calls = 1
    /\ Len(log) = 3
    /\ log[3].kind = "completed"
    /\ log[3].depth = 3
    /\ log[3].ret.v # log[2].ret.v
    /\ Len(generate_moves(game, root)) = 2

(* C2: two serial searchers that differ only in null_window_search and are *)
(* given the same calls (the first call, or calls after depth-bounded      *)
(* calls only, so that both have completed the same searches before)       *)
(* record the same root value in every pass of the loop that both          *)
(* complete, and end every depth-bounded call with the same root_value().  *)
SameHistory == runs = <<>> \/ runs[Len(runs)].bounded

C2_NullWindowSameValue ==
    /\ SameHistory =>
          \A i \in 1..Min(Len(log), Len(twin.log)) :
              (log[i].kind = "completed" /\ twin.log[i].kind = "completed")
                  => log[i].value = twin.log[i].value
    /\ \A i \in 1..Min(Len(runs), Len(twin.runs)) :
          runs[i].bounded => runs[i].root_value = twin.runs[i].root_value

C2_Witness ==
    /\ pc = "loop"
    /\ twin.pc = "loop"
    /\ Len(log) = 3
    /\ Len(twin.log) = 3
    /\ log[3].kind = "completed"
    /\ twin.log[3].kind = "completed"
    /\ table # twin.tt.table

\* two consecutive depth-bounded calls with the same max_depth and state
SameRun(sr, i) ==
    /\ sr.runs[i].max_time = 0
    /\ sr.runs[i + 1].max_time = 0
    /\ sr.runs[i].max_depth = sr.runs[i + 1].max_depth
    /\ sr.runs[i].root = sr.runs[i + 1].root

SameResult(sr, i) ==
    /\ sr.runs[i].move = sr.runs[i + 1].move
    /\ sr.runs[i].root_value = sr.runs[i + 1].root_value

(* C5: a depth-bounded choose_move on a new searcher and a second one on   *)
(* the same searcher (and table), with the same max_depth and the same     *)
(* state, return the same move and the same root_value().                  *)
Repeatable(sr) ==
    \A i \in 1..(Len(sr.runs) - 1) :
        (sr.runs[i].call = 1 /\ SameRun(sr, i)) => SameResult(sr, i)

serial_options(y) ==
    [table_byte_size |-> y.opts.table_byte_size, strategy |-> y.tt.strategy,
     null_window_search |-> y.opts.null_window_search, aspiration_window |-> None,
     step_increment |-> y.opts.step_increment,
     max_quiescence_depth |-> y.opts.max_quiescence_depth]

RECURSIVE serial_loop(_, _, _)
serial_loop(g, oc, sr) ==
    IF sr.pc = "loop" /\ loop_condition(sr)
    THEN serial_loop(g, oc, choose_move_iterate(g, oc, sr, Never))
    ELSE sr

serial_choose_move(g, oc, sr, s) ==
    LET e == serial_loop(g, oc, choose_move_begin(sr, s))
    IN  IF e.pc = "panicked" THEN e ELSE choose_move_return(e)

RECURSIVE serial_replay(_, _, _, _, _)
serial_replay(g, oc, o, rs, i) ==
    IF i = 0 THEN new_searcher(o)
    ELSE serial_choose_move(g, oc,
                            set_max_depth(serial_replay(g, oc, o, rs, i - 1), rs[i].max_depth),
                            rs[i].root)

C3_ParallelEqualsSerial ==
    \A i \in 1..Len(ybw.runs) :
        (/\ ybw.pc = "idle"
         /\ ybw.calls = Len(ybw.runs)
         /\ ~ybw.opts.null_window_search
         /\ ybw.runs[i].bounded
         /\ ybw.runs[i].max_depth = ybw.opts.serial_cutoff_depth)
            => ybw.runs[i].root_value
                 = root_value(serial_replay(game, overflow_checks, serial_options(ybw),
                                            ybw.runs, i))

C3_Witness ==
    /\ ybw.pc = "idle"
    /\ ~ybw.opts.null_window_search
    /\ Len(ybw.runs) = 1
    /\ ybw.runs[1].bounded
    /\ ybw.runs[1].max_depth = ybw.opts.serial_cutoff_depth
    /\ ybw.runs[1].move.some
    /\ ybw.runs[1].root_value # 0
    /\ ybw.regions = 1

(* C4: the pass of the loop that the timeout interrupts leaves best_move   *)
(* and prev_value as they were, and the choose_move it ends returns the    *)
(* best_move of the last pass that completed, None if no pass completed;   *)
(* in the serial and in the parallel searcher.                             *)
last_completed(lg) ==
    LET done == {i \in 1..Len(lg) : lg[i].kind = "completed"}
    IN  IF done = {} THEN None
        ELSE lg[CHOOSE i \in done : \A j \in done : j <= i].best_move

Anytime(sr, sr2) ==
    /\ (sr.pc \in {"loop", "region"} /\ sr2.pc \in {"region", "break"})
          => /\ sr2.best_move = sr.best_move
             /\ sr2.prev_value = sr.prev_value
    /\ sr2.pc = "break"
          => /\ sr2.log[Len(sr2.log)].kind = "timeout"
             /\ sr2.best_move = last_completed(sr2.log)
    /\ (sr.pc = "break" /\ sr2.pc = "idle")
          => /\ sr2.returned = last_completed(sr.log)
             /\ sr2.prev_value = sr.prev_value

C4_Anytime == [][Anytime(Self, Self') /\ Anytime(twin, twin') /\ Anytime(ybw, ybw')]_vars

C4_Witness ==
    /\ ybw.pc = "break"
    /\ ybw.timeout.fired
    /\ ybw.regions = 1
    /\ Len(ybw.log) = 2
    /\ ybw.log[1].kind = "completed"
    /\ ybw.best_move.some

(* C6: a choose_move on a root state without legal moves and without       *)
(* winner returns, and returns None; in the serial and in the parallel     *)
(* searcher.                                                               *)
NoMovesReturnsNone(g, sr) ==
    (sr.calls >= 1 /\ ~get_winner(g, sr.root).some /\ generate_moves(g, sr.root) = <<>>)
        => /\ sr.pc # "panicked"
           /\ sr.pc = "idle" => sr.returned = None

C6_NoMovesReturnsNone == NoMovesReturnsNone(game, Self) /\ NoMovesReturnsNone(game, ybw)

(* C10: every value a search returns as Some(v) lies in                    *)
(* WORST_EVAL..BEST_EVAL and no negation or decrement of a window bound or *)
(* of a returned value wraps; in the serial and in the parallel searcher.  *)
InRange(p) == p.ret_lo >= WORST_EVAL /\ p.ret_hi <= BEST_EVAL /\ ~p.wrapped

C10_Clamped ==
    /\ InRange(probe)
    /\ InRange(twin.probe)
    /\ InRange(ybw.probe)
    /\ ybw.pc = "region" => InRange(ybw.region.st)

C10_Witness ==
    /\ pc = "loop"
    /\ Len(log) = 3
    /\ log[3].kind = "completed"
    /\ probe.ret_lo = WORST_EVAL
    /\ probe.ret_hi = BEST_EVAL
    /\ opts.aspiration_window.some
    /\ opts.max_quiescence_depth > 0

(* C7: when the root has no winner and has a legal move, the root entry is *)
(* found after every root search that returned a value: the unwrap of      *)
(* choose_move does not fail, whatever the replacement strategy and the    *)
(* number of calls made before.                                            *)
C7_RootEntryExists ==
    (~get_winner(game, root).some /\ generate_moves(game, root) # <<>>)
        => \A i \in 1..Len(log) : log[i].kind # "unwrap"

(* C8: a depth-bounded choose_move on a root with a legal move and without *)
(* winner searches the root once for each d = max_depth mod step,          *)
(* max_depth mod step + step, ... <= max_depth, in this order, at depth    *)
(* d + 1, and then leaves the loop.                                        *)
C8_DepthSchedule ==
    (/\ last_setter.name = "set_max_depth"
     /\ ~get_winner(game, root).some
     /\ generate_moves(game, root) # <<>>)
        => /\ pc # "panicked"
           /\ \A i \in 1..Len(log) :
                 /\ log[i].kind = "completed"
                 /\ log[i].d = (max_depth % opts.step_increment)
                                  + (i - 1) * opts.step_increment
                 /\ log[i].d <= max_depth
                 /\ log[i].depth = log[i].d + 1
           /\ (pc = "loop" /\ ~loop_condition(Self))
                 => /\ log # <<>>
                    /\ log[Len(log)].depth = max_depth + 1

(* C9: the most recent of set_max_depth and set_timeout decides the mode:  *)
(* after set_max_depth(d), max_depth = d, max_time = 0 and choose_move     *)
(* runs with the constantly-false flag; after set_timeout(t), max_time = t *)
(* and choose_move runs with a timer latch.                                *)
C9_ModesExclusive ==
    /\ last_setter.name = "set_max_depth"
          => /\ max_depth = last_setter.arg
             /\ max_time = 0
             /\ pc \in {"loop", "break"} => timeout.kind = "false"
    /\ last_setter.name = "set_timeout"
          => /\ max_time = last_setter.arg
             /\ pc \in {"loop", "break"} => timeout.kind = "latch"

----------------------------------------------------------------------------
(* The number of slots of a table. *)
slots(tt) == Cardinality(DOMAIN tt.table)

(* C11: on a new table of at least two slots, whatever the replacement     *)
(* strategy, after any number of advance_generation calls and no store,    *)
(* store(h, v, d, flag, m) followed by lookup(h) returns an entry with     *)
(* hash h, value v, depth d, the flag, best_move Some(m) and the current   *)
(* generation.                                                             *)
C11_RoundTrip ==
    (/\ slots(Self.tt) >= 2
     /\ direct.stores = 1
     /\ direct.looked.some
     /\ direct.looked.v.hash = direct.last.v.hash
     /\ direct.last.v.generation = generation)
        => direct.looked.v.ret =
              Some([hash |-> direct.last.v.hash,
                    value |-> direct.last.v.value,
                    depth |-> direct.last.v.depth,
                    flag |-> direct.last.v.flag,
                    generation |-> generation,
                    best_move |-> direct.last.v.best_move])

C11_Witness ==
    /\ slots(Self.tt) >= 2
    /\ opts.strategy = "TwoTier"
    /\ direct.stores = 1
    /\ generation = 1
    /\ direct.last.v.generation = 1
    /\ direct.last.v.hash = 0
    /\ direct.last.v.flag = "Upperbound"
    /\ direct.looked.some
    /\ direct.looked.v.hash = 0
    /\ direct.looked.v.ret.some

(* C12: after any sequence of store and advance_generation calls,          *)
(* lookup(h) returns Some(e) only if e.hash = h and e was written by an    *)
(* earlier store(h, ...); for a hash that was never stored, in particular  *)
(* for every hash on a new table, lookup returns None.                     *)
C12_NoFalsePositive ==
    (direct.looked.some /\ direct.looked.v.ret.some)
        => /\ direct.looked.v.ret.v.hash = direct.looked.v.hash
           /\ direct.looked.v.hash \in direct.hashes
           /\ direct.looked.v.ret.v.best_move.some

(* A step that is a store, with the entry it was called with. *)
StoreStep == direct'.stores = direct.stores + 1
stored_entry == direct'.last.v

C15_CapacityAndAddressing ==
    opts.table_byte_size >= SizeOfEntry
        => /\ \E k \in 0..slots(Self.tt) : slots(Self.tt) = 2 ^ k
           /\ slots(Self.tt) >= opts.table_byte_size \div SizeOfEntry
           /\ DOMAIN table = 0..(slots(Self.tt) - 1)
           /\ mask < slots(Self.tt)
           /\ ~direct.panicked

(* C16: the generation is incremented exactly once by each choose_move     *)
(* call, at its start and before any store of the call, wrapping modulo    *)
(* 256, and is changed nowhere else; every entry a step writes carries the *)
(* generation current at the write; after n choose_move calls on a new     *)
(* searcher the generation is n mod 256.                                   *)
C16_GenerationTagging ==
    /\ [](generation = calls % U8)
    /\ [][\/ generation' = generation /\ calls' = calls
          \/ /\ calls' = calls + 1
             /\ generation' = (generation + 1) % U8
             /\ table' = table]_vars
    /\ [][\A i \in DOMAIN table :
             table'[i] # table[i] => table'[i].generation = generation']_vars

(* the call made after the generation has wrapped (the 257th) has written  *)
(* the entry of its root, with generation 1                                *)
C16_Witness ==
    /\ calls = U8 + 1
    /\ generation = 1
    /\ pc = "idle"
    /\ \E i \in DOMAIN table :
          /\ table[i].hash = zobrist_hash(game, root)
          /\ table[i].generation = 1
          /\ table[i].best_move.some

(* The pass of the loop a searcher is about to make, and the same pass     *)
(* made with aspiration disabled.                                          *)
next_pass(sr) == choose_move_iterate(game, overflow_checks, sr, Never)
next_pass_plain(sr) == next_pass([sr EXCEPT !.opts.aspiration_window = None])

AboutToAspire(sr) ==
    /\ sr.pc = "loop"
    /\ loop_condition(sr)
    /\ sr.opts.aspiration_window.some

C18_AspirationBounds ==
    (/\ AboutToAspire(Self)
     /\ add_u8(depth, 1)[1] >= 2
     /\ WORST_EVAL <= prev_value /\ prev_value <= BEST_EVAL
     /\ opts.aspiration_window.v >= 0)
        => LET within(b) == /\ WORST_EVAL <= b.alpha
                            /\ b.alpha <= b.beta
                            /\ b.beta <= BEST_EVAL
           IN  within(aspiration_bounds(prev_value, opts.aspiration_window.v))

(* C19: in a parallel negamax frame the first child (good_move if there is *)
(* one, else moves[0]) is searched serially before any worker starts, and  *)
(* the parallel region searches only the remaining children: no worker     *)
(* searches the move of the first child a second time.                     *)
C19_YoungBrothersWait ==
    ybw.pc = "region"
        => \A i \in 1..Len(ybw.region.w) :
              ybw.region.f.moves[i] = ybw.region.f.first_move
                  => ybw.region.w[i].pc \in {"pending", "loaded", "none", "skipped"}

(* The root searches of a searcher that returned None did so with the      *)
(* timeout flag set, and a depth-bounded call on a position with a move    *)
(* and without winner completes every pass it makes.                       *)
NoneMeansTimeout(sr, g) ==
    /\ \A i \in 1..Len(sr.log) :
          sr.log[i].kind = "timeout" => sr.timeout.kind = "latch" /\ sr.timeout.fired
    /\ sr.pc = "break" => sr.timeout.kind = "latch" /\ sr.timeout.fired
    /\ (/\ sr.timeout.kind = "false"
        /\ sr.pc \in {"loop", "region", "break", "panicked"}
        /\ ~get_winner(g, sr.root).some
        /\ generate_moves(g, sr.root) # <<>>)
          => /\ sr.pc \notin {"break", "panicked"}
             /\ \A i \in 1..Len(sr.log) : sr.log[i].kind = "completed"
             /\ (sr.pc = "loop" /\ ~loop_condition(sr))
                   => /\ sr.log # <<>>
                      /\ sr.log[Len(sr.log)].depth = sr.max_depth + 1

(* C20: negamax returns None only if the timeout flag is set at that       *)
(* moment; a parallel region that ended with None by cancellation (alpha   *)
(* >= beta) while the flag is not set does not return None but goes on     *)
(* with the best record; in depth-bounded mode no search returns None and  *)
(* every scheduled iteration completes.                                    *)
C20_NoneMeansTimeout ==
    /\ [](NoneMeansTimeout(Self, game) /\ NoneMeansTimeout(twin, game)
             /\ NoneMeansTimeout(ybw, game))
    /\ [][(/\ ybw.pc = "region"
           /\ ybw'.pc # "region"
           /\ ~timeout_load(ybw.region.st))
            => /\ ybw'.pc # "break"
               /\ ybw'.log # <<>>
               /\ ybw'.log[Len(ybw'.log)].kind \in {"completed", "unwrap"}]_vars

(* a parallel region has ended with None by cancellation and the timeout   *)
(* flag is not set                                                         *)
C20_Witness ==
    /\ ybw.pc = "region"
    /\ ybw.region.none
    /\ region_over(ybw.region)
    /\ ~timeout_load(ybw.region.st)
    /\ ybw.timeout.kind = "latch"

(* the closures of a region that ran to their end, and the values they     *)
(* and the serial search of the first child returned                       *)
completed(rg) == {i \in 1..Len(rg.w) : rg.w[i].pc = "done"}
region_values(rg) == {rg.f.initial_value} \cup {rg.w[i].value : i \in completed(rg)}

(* C21: in a parallel region, under every interleaving, the atomic alpha   *)
(* never decreases and is at all times >= the value of the best record     *)
(* under the mutex; when the region has ended and the timeout flag is not  *)
(* set, the best record holds the maximum of the first child's value and   *)
(* of the values of the closures that ran to their end, and its move is    *)
(* the first child's move unless a closure returned a strictly greater     *)
(* value (then it is the move of a closure that returned the maximum).     *)
C21_ParallelAccumulation ==
    /\ [](ybw.pc = "region" => ybw.region.alpha >= ybw.region.bests.value)
    /\ [][(ybw.pc = "region" /\ ybw'.pc = "region")
             => ybw'.region.alpha >= ybw.region.alpha]_vars
    /\ []((/\ ybw.pc = "region"
           /\ region_over(ybw.region)
           /\ ~timeout_load(ybw.region.st))
            => LET rg == ybw.region
               IN  /\ rg.bests.value \in region_values(rg)
                   /\ \A v \in region_values(rg) : v <= rg.bests.value
                   /\ IF \E i \in completed(rg) : rg.w[i].value > rg.f.initial_value
                      THEN \E i \in completed(rg) :
                              /\ rg.f.moves[i] = rg.bests.move
                              /\ rg.w[i].value = rg.bests.value
                      ELSE rg.bests.move = rg.f.first_move)

(* a region has ended, the timeout flag is not set, two closures ran to    *)
(* their end and one of them returned more than the first child            *)
C21_Witness ==
    /\ ybw.pc = "region"
    /\ region_over(ybw.region)
    /\ ~timeout_load(ybw.region.st)
    /\ Cardinality(completed(ybw.region)) >= 2
    /\ ybw.region.bests.value > ybw.region.f.initial_value
    /\ ybw.region.bests.move # ybw.region.f.first_move

(* C22: a closure abandons its task on alpha >= beta only after a          *)
(* fetch_max has raised alpha that far, and alpha does not decrease: once  *)
(* the region has ended with alpha >= beta the value of the best record is *)
(* >= beta, and when the timeout flag is not set the coordinating frame    *)
(* hands that value to concurrent_update, which records it for the frame's *)
(* hash as a lower bound, never as Exact or as an upper bound.             *)
C22_CutoffReflected ==
    /\ []((/\ ybw.pc = "region"
           /\ region_over(ybw.region)
           /\ ybw.region.alpha >= ybw.region.f.beta)
            => ybw.region.bests.value >= ybw.region.f.beta)
    /\ []((/\ ybw.pc = "region"
           /\ ybw.region.none
           /\ ~timeout_load(ybw.region.st))
            => ybw.region.alpha >= ybw.region.f.beta)
    /\ [][(/\ ybw.pc = "region"
           /\ ybw'.pc # "region"
           /\ ybw.region.none
           /\ ~timeout_load(ybw.region.st))
            => LET written(found) ==
                     /\ found.some
                     /\ found.v.flag = "Lowerbound"
                     /\ found.v.value = ybw.region.bests.value
                     /\ found.v.value >= ybw.region.f.beta
                     /\ found.v.depth = ybw.region.f.depth
               IN  written(lookup(ybw'.tt, ybw.region.f.hash))]_vars

(* a region has ended in which one closure raised alpha to beta and        *)
(* another abandoned its task on seeing it, and the timeout flag is not    *)
(* set; the best record holds the value of the closure that raised alpha   *)
C22_Witness ==
    /\ ybw.pc = "region"
    /\ region_over(ybw.region)
    /\ ~timeout_load(ybw.region.st)
    /\ \E i, j \in 1..Len(ybw.region.w) :
          /\ ybw.region.w[i].pc = "none"
          /\ ybw.region.w[j].pc = "done"
          /\ ybw.region.w[j].value >= ybw.region.f.beta
          /\ ybw.region.bests.move = ybw.region.f.moves[j]

(* Searchers with a quiescence search of one and of two plies, and the     *)
(* quiescence searches called on their own: on every position, with        *)
(* budgets 0..MaxQuiescence, on the table a searcher holds.                *)
MaxQuiescence == 2   \* largest quiescence depth

InitQuiet ==
    \/ InitSerial(Games(1..NumSeeds, {"inner"}, {1}),
                  Options({2}, Strategies, {None}, {1}, 1..MaxQuiescence),
                  {FALSE})
    \/ InitYbw(Games(1..NumSeeds, {"inner"}, {1}),
               YbwOptions({2}, {TRUE, FALSE}, {1}, 1..MaxQuiescence),
               {FALSE})

NextQuiet ==
    \/ \E d \in 0..MaxDepthArg : SetMaxDepth(d, 1)
    \/ \E t \in Durations : SetTimeout(t, 1)
    \/ \E s \in Roots : ChooseMove(s, 1)
    \/ Iterate
    \/ Return
    \/ \E d \in 0..MaxDepthArg : YbwSetMaxDepth(d, 1)
    \/ \E t \in Durations : YbwSetTimeout(t, 1)
    \/ \E s \in Roots : YbwChooseMove(s, 1)
    \/ YbwIterate
    \/ \E i \in Workers : WorkerLoad(i)
    \/ \E i \in Workers : WorkerSkip(i)
    \/ \E i \in Workers : WorkerSearch(i)
    \/ \E i \in Workers : WorkerRecheck(i)
    \/ \E i \in Workers : WorkerResearch(i)
    \/ \E i \in Workers : WorkerFetchMax(i)
    \/ \E i \in Workers : WorkerBest(i)
    \/ RegionJoin
    \/ YbwReturn

SpecQuiet == InitQuiet /\ [][NextQuiet]_vars

Positions == UNION {[1..n -> 1..MaxBranch] : n \in 0..MaxPly}
QuietWindows == {<<WORST_EVAL, BEST_EVAL>>, <<-1, 0>>}
QuietTimers == {Never, 0, 2}

\* noisy_negamax(cfg, st, s, dq, alpha, beta) returned r.  With the flag set
\* at the entry r is None and nothing else was called.  Otherwise: the table
\* is the one of before, no negamax ran, at most dq noisy_negamax calls were
\* nested below the call, a None comes with the flag set, a position that
\* has no winner got the static evaluation (and no further call) if dq = 0
\* or no move is noisy, and with the full window the value is the one of the
\* quiescence search without window.
QuietCall(cfg, st, s, dq, window, r) ==
    /\ r.st.tt = st.tt
    /\ r.st.nodes_explored = 0
    /\ r.st.frames = 0
    /\ r.st.noisy_frames = 0
    /\ r.st.noisy_deepest <= dq + 1
    /\ r.st.deepest = r.st.noisy_deepest
    /\ IF timeout_load(st)
       THEN r.ret = None /\ r.st.entered = 1
       ELSE /\ (r.ret = None) => timeout_load(r.st)
            /\ (/\ ~get_winner(cfg.g, s).some
                /\ dq = 0 \/ generate_noisy_moves(cfg.g, s) = <<>>)
                  => /\ r.ret = Some(evaluate(cfg.g, s))
                     /\ r.st.entered = 1
            /\ (window = <<WORST_EVAL, BEST_EVAL>> /\ r.ret.some)
                  => r.ret.v = plain_noisy(cfg, s, dq)

\* the quiescence searches of both searchers, called on the table of sr
Quiescent(g, sr) ==
    LET on(cfg, st, s, dq, w) ==
          /\ QuietCall(cfg, st, s, dq, w, noisy_negamax(cfg, st, s, dq, w[1], w[2]))
          /\ QuietCall(cfg, st, s, dq, w, ybw_noisy_negamax(cfg, st, s, dq, w[1], w[2]))
    IN  \A s \in Positions, dq \in 0..MaxQuiescence, w \in QuietWindows, timer \in QuietTimers :
           on(search_cfg(g, sr), search_state(sr.tt, timer), s, dq, w)

\* sr has left the loop of choose_move
LoopEnded(sr) == sr.pc = "break" \/ (sr.pc = "loop" /\ ~loop_condition(sr))

(* C23: a call noisy_negamax(s, d_q, alpha, beta), of the serial or of the *)
(* parallel searcher, leaves the transposition table as it was and its     *)
(* result does not depend on the table; it nests at most d_q further       *)
(* noisy_negamax calls below it (in a search, at most                      *)
(* max_quiescence_depth + 1 noisy_negamax frames are live at a time), and  *)
(* for a position without winner it returns the static evaluation when     *)
(* d_q = 0 or when no move is noisy; it returns None only with the timeout *)
(* flag set.                                                               *)
C23_QuiescenceBypassesTable ==
    /\ probe.noisy_deepest <= opts.max_quiescence_depth + 1
    /\ twin.probe.noisy_deepest <= twin.opts.max_quiescence_depth + 1
    /\ ybw.probe.noisy_deepest <= ybw.opts.max_quiescence_depth + 1
    /\ LoopEnded(Self) => Quiescent(game, Self)
    /\ LoopEnded(ybw) => Quiescent(game, ybw)

(* a search has used the whole of its quiescence budget, MaxQuiescence     *)
(* noisy_negamax calls nested below the first, and has completed           *)
QuiescenceNested(sr) ==
    /\ LoopEnded(sr)
    /\ sr.opts.max_quiescence_depth = MaxQuiescence
    /\ sr.probe.noisy_deepest = MaxQuiescence + 1
    /\ sr.log # <<>>
    /\ sr.log[Len(sr.log)].kind = "completed"

C23_Witness == QuiescenceNested(Self) \/ QuiescenceNested(ybw)

(* C24: at every moment of a choose_move call of the serial searcher, the  *)
(* number of nested live recursion frames (negamax frames plus             *)
(* noisy_negamax frames of one call chain) is at most                      *)
(* max_depth + max_quiescence_depth + 1.                                   *)
C24_StackDepthBound ==
    (pc \in {"loop", "break"} /\ log # <<>>)
        => probe.deepest <= max_depth + opts.max_quiescence_depth + 1

(* During a choose_move call of the serial searcher at most                *)
(* max_depth + max_quiescence_depth + 3 recursion frames are live at a     *)
(* time: the negamax frames of depths max_depth + 1 down to 0 and the      *)
(* noisy_negamax frames of budgets max_quiescence_depth down to 0.         *)
StackDepth(sr) ==
    (sr.pc \in {"loop", "break"} /\ sr.log # <<>>)
        => sr.probe.deepest <= sr.max_depth + sr.opts.max_quiescence_depth + 3

C24_StackDepth == StackDepth(Self) /\ StackDepth(twin)

(* a depth-bounded call with a quiescence search has had that many frames  *)
(* live                                                                    *)
C24_Witness ==
    /\ pc \in {"loop", "break"}
    /\ log # <<>>
    /\ max_time = 0
    /\ opts.max_quiescence_depth >= 1
    /\ probe.deepest = max_depth + opts.max_quiescence_depth + 3

(* An entry that a store has written is a true statement about the         *)
(* position of its hash: of the value of the unpruned negamax of the       *)
(* entry's depth, searched without table, the entry's value is the value   *)
(* itself (Exact), a lower bound or an upper bound.                        *)
EntrySound(g, cfg, e) ==
    LET sound(v) == CASE e.flag = "Exact" -> e.value = v
                      [] e.flag = "Lowerbound" -> e.value <= v
                      [] OTHER -> v <= e.value
    IN  e.best_move.some
           => \E s \in Positions :
                 /\ zobrist_hash(g, s) = e.hash
                 /\ sound(plain_negamax(cfg, s, e.depth))

\* during and after the first call of a searcher
TableSound(g, sr) ==
    sr.calls = 1 =>
        \A i \in DOMAIN sr.tt.table : EntrySound(g, search_cfg(g, sr), sr.tt.table[i])

\* sr is about to search with a timer that has not fired
Timed(sr) ==
    /\ sr.pc = "loop"
    /\ loop_condition(sr)
    /\ sr.timeout.kind = "latch"
    /\ ~sr.timeout.fired

\* the pass of the serial loop in which the flag is set at poll cut + 1
\* (counted from 1): if it ends with None, the poll that read the flag set
\* was the last call made (but for the root call of the full-window search
\* that follows an aspiration search) and the root frame has written
\* nothing; if it ends with a value, fewer than cut + 1 calls were made
NoneGoesUp(sr, cut, nx) ==
    LET aspired == sr.opts.aspiration_window.some /\ add_u8(sr.depth, 1)[1] >= 2
        root_entry(found) ==
            /\ found.some
            /\ found.v.depth = add_u8(sr.depth, 1)[1]
            /\ found.v.generation = sr.tt.generation
    IN  IF nx.pc = "break"
        THEN /\ nx.probe.entered \in {cut + 1} \cup (IF aspired THEN {cut + 2} ELSE {})
             /\ nx.timeout.fired
             /\ aspired \/ ~root_entry(lookup(nx.tt, zobrist_hash(game, sr.root)))
        ELSE nx.pc = "loop" => nx.probe.entered <= cut

(* C25: the timeout flag is polled at the entry of every negamax and       *)
(* noisy_negamax call, and a frame in which a child search returned None   *)
(* because of the timeout returns None itself, without searching further   *)
(* and without calling update or concurrent_update (so does the frame that *)
(* coordinates a parallel region); every entry of the table was written by *)
(* a frame all of whose searched children returned a value, and is a true  *)
(* bound of its position.                                                  *)
C25_TimedOutFramesNeverWrite ==
    /\ [](TableSound(game, Self) /\ TableSound(game, twin) /\ TableSound(game, ybw))
    /\ [](Timed(Self) =>
            \A cut \in 0..MaxCut :
               NoneGoesUp(Self, cut, choose_move_iterate(game, overflow_checks, Self, cut)))
    /\ [][(/\ ybw.pc = "region"
           /\ ybw'.pc = "break")
            => /\ timeout_load(ybw.region.st)
               /\ ybw'.tt = ybw.tt]_vars

(* a search was stopped by the timeout below its root, after the pass      *)
(* before it had completed: frames with a child that returned None have    *)
(* returned, and the table holds entries of the call                       *)
StoppedBelowRoot(sr) ==
    /\ sr.pc = "break"
    /\ sr.calls = 1
    /\ Len(sr.log) >= 2
    /\ sr.probe.entered >= 4
    /\ \E i \in DOMAIN sr.tt.table : sr.tt.table[i].best_move.some

C25_Witness == StoppedBelowRoot(Self) \/ StoppedBelowRoot(ybw)

(* C26: in a depth-bounded call with max_depth in 0..255 and step 1 or 2,  *)
(* every 8-bit depth computation of choose_move (max_depth as u8,          *)
(* depth + 1, depth += step, and the PV length depth + 1 after the         *)
(* increment) stays within 0..255, and the loop ends after at most         *)
(* max_depth + 1 iterations.                                               *)
C26_DepthCounterInRange ==
    (/\ last_setter.name = "set_max_depth"
     /\ max_depth \in 0..(U8 - 1)
     /\ opts.step_increment \in {1, 2}
     /\ calls = 1)
        => /\ as_u8(max_depth) = max_depth
           /\ \A i \in 1..Len(log) : log[i].kind # "overflow"
           /\ Len(log) <= max_depth + 1
           /\ pc = "loop" =>
                 /\ ~add_u8(depth, 1)[2]
                 /\ loop_condition(Self) =>
                       /\ ~add_u8(depth, opts.step_increment)[2]
                       /\ ~add_u8(add_u8(depth, opts.step_increment)[1], 1)[2]

(* C27: under TwoTier on a table of at least two slots, after any sequence *)
(* of store and advance_generation calls, lookup(h) made directly after    *)
(* store(h, v, d, flag, m) returns the entry just written (value v, depth  *)
(* d, flag, best_move Some(m), the current generation), never an older     *)
(* entry of the same hash left in the other slot of the pair.              *)
C27_TwoTierStoreVisible ==
    (/\ opts.strategy = "TwoTier"
     /\ slots(Self.tt) >= 2
     /\ direct.last.some
     /\ direct.looked.some
     /\ direct.looked.v.hash = direct.last.v.hash
     /\ direct.last.v.generation = generation)
        => direct.looked.v.ret = direct.last

====
